---- MODULE Spec2Model ----
(***************************************************************************)
(* Model of the Dash / Stripe dashboard: the catalog view (pages/home.py), *)
(* the creation form (pages/create_product.py) and the analytics view      *)
(* (pages/analytics.py), together with the part of the payment provider    *)
(* they read and write.                                                    *)
(***************************************************************************)
EXTENDS Integers, Sequences, FiniteSets, TLC

(***************************************************************************)
(* Bounds of the model.                                                    *)
(***************************************************************************)
MaxProducts == 2      \* products the provider holds at most
MaxPrices == 3        \* prices the provider holds at most
MaxClicks == 2        \* clicks one Buy button receives at most
MaxSessions == 2      \* checkout sessions created at most
MaxPayments == 3      \* payment intents the provider holds at most
MaxSubmits == 2       \* clicks the Create button receives at most on one page load

(***************************************************************************)
(* Program constants.                                                      *)
(***************************************************************************)
ProductListLimit == 100   \* home.py: stripe.Product.list(limit=100)
PriceListLimit == 10      \* home.py: stripe.Price.list(product=..., limit=10)
RecentProductsLimit == 5  \* create_product.py: stripe.Product.list(limit=5)
RecentPriceLimit == 1     \* create_product.py: stripe.Price.list(..., limit=1)
PaymentListLimit == 100   \* analytics.py: stripe.PaymentIntent.list(limit=100)
WindowDays == 30          \* analytics.py: timedelta(days=30)
MantissaBits == 53        \* significand width of a Python float (IEEE 754 binary64)
GuardedBits == 13         \* width of the last digit of a significand below

None == "None"

(***************************************************************************)
(* Python float arithmetic, so that int(float(amount) * 100) is computed   *)
(* as CPython computes it: float() and * round to nearest, ties to even,   *)
(* at 53 significant bits, int() truncates.  Values of the machine width   *)
(* cannot hold 53 bits, so a float x with 1/2 <= x < 4096 is held as       *)
(* binary digits of four widths,                                           *)
(*   x = int + d1 / 2^20 + d2 / 2^(20 + w2) + d3 / 2^(20 + w2 + 13).       *)
(* float() yields w2 = 20 - BitLen(int): int, d1, d2, d3 are its 53 bits.  *)
(***************************************************************************)
Pow2(n) == 2 ^ n

\* number of binary digits of n
BitLen(n) == CHOOSE L \in 0..30 : n < Pow2(L) /\ (L = 0 \/ n >= Pow2(L - 1))

\* F applied to the value of e, which is evaluated once
Bind(e, F(_)) == CHOOSE y \in {F(v) : v \in {e}} : TRUE

\* the digits x, the last w3 wide, plus one unit in the last place when up,
\* carried through the digits
RoundUp(x, w3, up) ==
    Bind(x.d3 + (IF up THEN 1 ELSE 0), LAMBDA n3 :
    Bind(x.d2 + n3 \div Pow2(w3), LAMBDA n2 :
    Bind(x.d1 + n2 \div Pow2(x.w2), LAMBDA n1 :
        [int |-> x.int + n1 \div Pow2(20), d1 |-> n1 % Pow2(20),
         d2 |-> n2 % Pow2(x.w2), d3 |-> n3 % Pow2(w3), w2 |-> x.w2])))

\* the binary digits of b / 100 after the point: 20, then w2, then 13 and a
\* guard digit; r is what is left of the division
FractionDigits(b, w2) ==
    Bind([q |-> (b * Pow2(20)) \div 100, r |-> (b * Pow2(20)) % 100], LAMBDA s1 :
    Bind([q |-> (s1.r * Pow2(w2)) \div 100, r |-> (s1.r * Pow2(w2)) % 100], LAMBDA s2 :
    Bind([q |-> (s2.r * Pow2(GuardedBits + 1)) \div 100,
          r |-> (s2.r * Pow2(GuardedBits + 1)) % 100], LAMBDA s3 :
        [d1 |-> s1.q, d2 |-> s2.q, d3 |-> s3.q \div 2, guard |-> s3.q % 2, r |-> s3.r])))

\* float(amount) for the decimal amount c / 100, 50 <= c < 409600: the
\* quotient rounded to nearest, ties to even
FloatOfCents(c) ==
    Bind(FractionDigits(c % 100, 20 - BitLen(c \div 100)), LAMBDA f :
        RoundUp([int |-> c \div 100, d1 |-> f.d1, d2 |-> f.d2, d3 |-> f.d3,
                 w2 |-> 20 - BitLen(c \div 100)],
                GuardedBits, f.guard = 1 /\ (f.r # 0 \/ f.d3 % 2 = 1)))

\* the exact product of the digits of x and 100
DigitsTimes100(x) ==
    Bind([q |-> (x.d3 * 100) \div Pow2(GuardedBits), d |-> (x.d3 * 100) % Pow2(GuardedBits)],
         LAMBDA s3 :
    Bind([q |-> (x.d2 * 100 + s3.q) \div Pow2(x.w2), d |-> (x.d2 * 100 + s3.q) % Pow2(x.w2)],
         LAMBDA s2 :
    Bind([q |-> (x.d1 * 100 + s2.q) \div Pow2(20), d |-> (x.d1 * 100 + s2.q) % Pow2(20)],
         LAMBDA s1 :
        [int |-> x.int * 100 + s1.q, d1 |-> s1.d, d2 |-> s2.d, d3 |-> s3.d, w2 |-> x.w2])))

\* x * 100: the exact product has u digits more than x, which are rounded
\* away from the end of d3, to nearest, ties to even
FloatTimes100(x) ==
    Bind(DigitsTimes100(x), LAMBDA p :
    Bind(BitLen(p.int) - BitLen(x.int), LAMBDA u :
    Bind([keep |-> p.d3 \div Pow2(u), rest |-> p.d3 % Pow2(u), half |-> Pow2(u - 1)],
         LAMBDA t :
    Bind(RoundUp([p EXCEPT !.d3 = t.keep], GuardedBits - u,
                 t.rest > t.half \/ (t.rest = t.half /\ t.keep % 2 = 1)), LAMBDA m :
        [m EXCEPT !.d3 = m.d3 * Pow2(u)]))))

\* int(x): truncation toward zero
IntOfFloat(x) == x.int

\* int(float(amount) * 100) for the decimal amount c / 100
IntFloatTimes100(c) == Bind(FloatOfCents(c), LAMBDA x : IntOfFloat(FloatTimes100(x)))

\* the decimal amounts of the model, in hundredths
AmountNumbers == {56, 57, 1250}

\* amount_cents = int(float(amount) * 100), evaluated once per amount
CentsTable == {<<c, IntFloatTimes100(c)>> : c \in AmountNumbers}
AmountCents(c) == (CHOOSE t \in CentsTable : t[1] = c)[2]

(***************************************************************************)
(* State.                                                                  *)
(***************************************************************************)
VARIABLES
    api_key,         \* app.py: stripe.api_key
    products,        \* provider: products, most recent first
    prices,          \* provider: prices, most recent first
    nsessions,       \* provider: number of checkout sessions created
    session,         \* provider: the checkout session created last
    phase,           \* "boot" until pages/home.py has been imported
    products_df,     \* home.py: module-level products_df
    error_message,   \* home.py: module-level error_message
    page,            \* the page the browser shows
    shown,           \* catalog page as rendered: banners, cards, placeholder
    n_clicks,        \* catalog page: n_clicks of each Buy button
    checkout_url,    \* catalog page: children of the hidden checkout-url div
    tabs,            \* urls handed to webbrowser.open_new_tab
    form,            \* creation page: values of the form fields
    create_message,  \* creation page: children of create-message
    recent_products, \* creation page: children of recent-products
    submit_clicks,   \* creation page: n_clicks of the Create button
    calls,           \* provider calls made by the handler that ran last
    last,            \* the step taken last and what it was given
    payments,        \* provider: payment intents, most recent first
    now,             \* the clock, in whole days
    analytics_phase, \* "boot" until pages/analytics.py has been imported
    revenue_df,      \* analytics.py: module-level revenue_df
    analytics_error_message, \* analytics.py: module-level error_message
    total_revenue,   \* analytics.py: module-level total_revenue
    total_transactions, \* analytics.py: module-level total_transactions
    avg_transaction, \* analytics.py: module-level avg_transaction
    figure,          \* analytics.py: create_revenue_chart(revenue_df) of the layout
    analytics_shown, \* analytics page as rendered
    script_key,      \* stripe_api_basics.py: os.environ.get('STRIPE_SECRET_KEY')
    script_pc,       \* stripe_api_basics.py: the statement to run next
    exit_status,     \* stripe_api_basics.py: exit status of the process
    printed          \* stripe_api_basics.py: what was printed

vars == <<api_key, products, prices, nsessions, session, phase, products_df,
          error_message, page, shown, n_clicks, checkout_url, tabs, form,
          create_message, recent_products, submit_clicks, calls, last,
          payments, now, analytics_phase, revenue_df, analytics_error_message,
          total_revenue, total_transactions, avg_transaction, figure,
          analytics_shown, script_key, script_pc, exit_status, printed>>

providerVars == <<products, prices, nsessions, session>>
homeModuleVars == <<phase, products_df, error_message>>
homePageVars == <<shown, n_clicks, checkout_url>>
createPageVars == <<form, create_message, recent_products, submit_clicks>>
analyticsModuleVars == <<analytics_phase, revenue_df, analytics_error_message,
                         total_revenue, total_transactions, avg_transaction, figure>>
analyticsVars == <<payments, now, analyticsModuleVars, analytics_shown>>
scriptVars == <<script_key, script_pc, exit_status, printed>>

(***************************************************************************)
(* The credential: os.environ.get('STRIPE_SECRET_KEY') is the account's    *)
(* secret key, a text that is no key of the account, or None.  No module   *)
(* of the dashboard examines it; the provider's library raises an          *)
(* AuthenticationError in every call made without a valid key.             *)
(***************************************************************************)
ValidKey == "sk_test_valid"
MalformedKey == "malformed"
Keys == {ValidKey, MalformedKey, None}

Authenticated == api_key = ValidKey

(***************************************************************************)
(* The provider's catalog.                                                 *)
(***************************************************************************)
Intervals == {"month", "year"}
Currencies == {"usd", "eur"}

Product(id, name, description, image) ==
    [id |-> id, name |-> name, description |-> description, image |-> image]

Price(id, product, unit_amount, currency, recurring) ==
    [id |-> id, product |-> product, unit_amount |-> unit_amount,
     currency |-> currency, recurring |-> recurring]

\* catalogs the account may hold when the application starts
InitialCatalogs ==
    { [products |-> << >>, prices |-> << >>],
      [products |-> <<Product(1, "Basic", "", "")>>,
       prices |-> <<Price(2, 1, 1999, "usd", "month"), Price(1, 1, 500, "usd", None)>>],
      [products |-> <<Product(2, "Pro", "d", "i"), Product(1, "Basic", "", "")>>,
       prices |-> <<Price(2, 2, 1999, "usd", "month"), Price(1, 1, 500, "usd", None)>>],
      [products |-> <<Product(2, "Pro", "d", "i"), Product(1, "Basic", "", "")>>,
       prices |-> <<Price(1, 1, 500, "usd", None)>>] }

Take(s, n) == SubSeq(s, 1, IF Len(s) < n THEN Len(s) ELSE n)

\* stripe.Product.list(limit=n).data on the catalog prods
ProductList(prods, n) == Take(prods, n)

\* a price list that is not restricted to the product asked for
PriceListAnyProduct(prcs, pid, n) == Take(prcs, n)

\* stripe.Price.list(product=pid, limit=n).data on the catalog prcs
PriceList(prcs, pid, n) == Take(SelectSeq(prcs, LAMBDA p : p.product = pid), n)

PriceById(id) == CHOOSE p \in {prices[i] : i \in 1..Len(prices)} : p.id = id

Call(op, ok, args) == [op |-> op, ok |-> ok, args |-> args]

\* the exception raised by the n-th provider call of a handler
ProviderError(op, n) == [op |-> op, n |-> n]
NoError == [op |-> "none", n |-> 0]

NoMessage == [text |-> "", e |-> NoError]
NoSession == [id |-> 0, price |-> 0, quantity |-> 0, mode |-> "none"]
NoUrl == 0

\* str.upper() on a currency code
Upper(cur) == IF cur = "usd" THEN "USD" ELSE IF cur = "eur" THEN "EUR" ELSE cur

(***************************************************************************)
(* pages/home.py                                                           *)
(***************************************************************************)
\* the rows appended for one product (inner loop of fetch_products_data)
ProductRows(product, plist) ==
    [i \in 1..Len(plist) |->
        [product_id |-> product.id,
         product_name |-> product.name,
         description |-> IF product.description # "" THEN product.description
                         ELSE "No description",
         price_id |-> plist[i].id,
         unit_amount |-> plist[i].unit_amount,   \* in hundredths of the unit
         currency |-> Upper(plist[i].currency),
         recurring |-> IF plist[i].recurring # None THEN "Yes" ELSE "No",
         image |-> IF product.image # "" THEN product.image ELSE None]]

\* fetch_products_data with its failAt-th provider call raising (0: none);
\* products_data is what the local list holds when the function is left
RECURSIVE FetchFrom(_, _, _, _, _, _)
FetchFrom(prcs, listed, i, failAt, data, log) ==
    IF i > Len(listed) THEN [raised |-> NoError, products_data |-> data, calls |-> log]
    ELSE LET args == [product |-> listed[i].id, limit |-> PriceListLimit]
         IN  IF failAt = i + 1
             THEN [raised |-> ProviderError("Price.list", i + 1), products_data |-> data,
                   calls |-> Append(log, Call("Price.list", FALSE, args))]
             ELSE FetchFrom(prcs, listed, i + 1, failAt,
                            data \o ProductRows(listed[i],
                                                PriceList(prcs, listed[i].id, PriceListLimit)),
                            Append(log, Call("Price.list", TRUE, args)))

\* a fetch that appends to the rows the module already holds
fetch_products_data_accumulating(prods, prcs, failAt) ==
    IF failAt = 1
    THEN [raised |-> ProviderError("Product.list", 1), products_data |-> << >>,
          calls |-> <<Call("Product.list", FALSE, [limit |-> ProductListLimit])>>]
    ELSE FetchFrom(prcs, ProductList(prods, ProductListLimit), 1, failAt, products_df,
                   <<Call("Product.list", TRUE, [limit |-> ProductListLimit])>>)

fetch_products_data(prods, prcs, failAt) ==
    IF failAt = 1
    THEN [raised |-> ProviderError("Product.list", 1), products_data |-> << >>,
          calls |-> <<Call("Product.list", FALSE, [limit |-> ProductListLimit])>>]
    ELSE FetchFrom(prcs, ProductList(prods, ProductListLimit), 1, failAt, << >>,
                   <<Call("Product.list", TRUE, [limit |-> ProductListLimit])>>)

\* an except clause that keeps the rows gathered before the failure
HomeModuleStateKeepsRows(r) ==
    IF r.raised = NoError
    THEN [products_df |-> r.products_data, error_message |-> NoMessage]
    ELSE [products_df |-> r.products_data,
          error_message |-> [text |-> "Error fetching Stripe products", e |-> r.raised]]

\* an except clause that keeps no message of the failure
HomeModuleStateNoMessage(r) ==
    [products_df |-> IF r.raised = NoError THEN r.products_data ELSE << >>,
     error_message |-> NoMessage]

\* the try / except around the module-level fetch
HomeModuleState(r) ==
    IF r.raised = NoError
    THEN [products_df |-> r.products_data, error_message |-> NoMessage]
    ELSE [products_df |-> << >>,
          error_message |-> [text |-> "Error fetching Stripe products", e |-> r.raised]]

\* create_product_cards: one card per row, or the placeholder paragraph
create_product_cards(df) ==
    IF df = << >> THEN [cards |-> << >>, placeholder |-> TRUE]
    ELSE [cards |-> [idx \in 1..Len(df) |->
                        [index |-> idx - 1, name |-> df[idx].product_name,
                         description |-> df[idx].description,
                         unit_amount |-> df[idx].unit_amount,
                         currency |-> df[idx].currency,
                         label |-> IF df[idx].recurring = "Yes" THEN "Subscription"
                                   ELSE "One-time payment",
                         price_id |-> df[idx].price_id]],
          placeholder |-> FALSE]

\* the module-level layout
HomeLayout ==
    LET c == create_product_cards(products_df)
    IN  [banners |-> IF error_message # NoMessage THEN <<error_message>> ELSE << >>,
         cards |-> c.cards, placeholder |-> c.placeholder]

NoPage == [banners |-> << >>, cards |-> << >>, placeholder |-> FALSE]

\* import of pages/home.py when the Dash application is constructed
ImportHome(failAt) ==
    /\ phase = "boot"
    /\ failAt <= Len(fetch_products_data(products, prices, 0).calls)
    /\ ~Authenticated => failAt = 1
    /\ LET r == fetch_products_data(products, prices, failAt)
           m == HomeModuleState(r)
       IN  /\ products_df' = m.products_df
           /\ error_message' = m.error_message
           /\ calls' = r.calls
           /\ last' = [op |-> "import_home", failAt |-> failAt]
    /\ phase' = "running"
    /\ UNCHANGED <<scriptVars, api_key, providerVars, page, homePageVars, tabs, createPageVars, analyticsVars>>

(***************************************************************************)
(* pages/create_product.py                                                 *)
(***************************************************************************)
NoPriceText == [amount |-> 0, currency |-> "", per |-> None]

\* the empty create-message and recent-products containers of the layout
NoCreateMessage == [kind |-> "none", e |-> NoError, product_id |-> 0,
                    product_name |-> "", price_id |-> 0, price |-> NoPriceText]
NoRecent == [kind |-> "none", cards |-> << >>, e |-> NoError]

\* values of the price-amount field: nothing, a text that is no number, or a
\* decimal number with two digits after the point, held as its hundredths
AmountEmpty == [kind |-> "empty", cents |-> 0]
AmountText == [kind |-> "text", cents |-> 0]
AmountNumber(c) == [kind |-> "number", cents |-> c]

DefaultForm ==
    [name |-> "", description |-> "", image |-> "", price_type |-> "one_time",
     interval |-> "month", amount |-> AmountEmpty,
     currency |-> "usd", nickname |-> "", meta_key |-> "", meta_value |-> ""]

PriceTypes == {"one_time", "recurring"}

\* what the user may have typed when the Create button is clicked
RejectedForms ==
    { [DefaultForm EXCEPT !.name = n, !.amount = a] :
        n \in {"", "Widget"}, a \in {AmountEmpty, AmountText} }
    \cup { [DefaultForm EXCEPT !.amount = AmountNumber(1250)],
           [DefaultForm EXCEPT !.name = "Widget", !.amount = AmountNumber(0)] }

ValidForms ==
    { [DefaultForm EXCEPT !.name = "Widget", !.amount = AmountNumber(c)] :
        c \in AmountNumbers }
    \cup { [DefaultForm EXCEPT !.name = "Widget", !.amount = AmountNumber(1250),
                               !.price_type = "recurring", !.interval = i] :
             i \in Intervals }
    \cup { [DefaultForm EXCEPT !.name = "Widget", !.amount = AmountNumber(1250),
                               !.interval = "year", !.currency = "eur",
                               !.description = "desc", !.image = "img",
                               !.nickname = "nick", !.meta_key = "k", !.meta_value = v] :
             v \in {"", "v"} }

FormInputs == RejectedForms \cup ValidForms

\* a validation that takes only a non-zero number for a given amount
TruthyNumberOnly(amount) == amount.kind = "number" /\ amount.cents # 0

\* Python truth value of the amount field
Truthy(amount) ==
    amount.kind = "text" \/ (amount.kind = "number" /\ amount.cents # 0)

\* the keyword arguments of stripe.Product.create; a key that is left out is
\* the empty string or the empty tuple
product_data(f) ==
    [name |-> f.name,
     description |-> f.description,
     images |-> IF f.image # "" THEN <<f.image>> ELSE << >>,
     metadata |-> IF f.meta_key # "" /\ f.meta_value # ""
                  THEN <<f.meta_key, f.meta_value>> ELSE << >>]

\* price_data referring to the oldest product instead of the one just created
price_data_first_product(product, amount_cents, f) ==
    [product |-> 1,
     unit_amount |-> amount_cents,
     currency |-> f.currency,
     nickname |-> f.nickname,
     recurring |-> IF f.price_type = "recurring" THEN f.interval ELSE None]

\* price_data with the recurring key whatever the price type is
price_data_always_recurring(product, amount_cents, f) ==
    [product |-> product.id,
     unit_amount |-> amount_cents,
     currency |-> f.currency,
     nickname |-> f.nickname,
     recurring |-> f.interval]

\* the keyword arguments of stripe.Price.create; recurring None: key left out
price_data(product, amount_cents, f) ==
    [product |-> product.id,
     unit_amount |-> amount_cents,
     currency |-> f.currency,
     nickname |-> f.nickname,
     recurring |-> IF f.price_type = "recurring" THEN f.interval ELSE None]

\* the product the provider stores for stripe.Product.create(**args)
CreatedProduct(prods, args) ==
    Product(Len(prods) + 1, args.name, args.description,
            IF args.images # << >> THEN args.images[1] ELSE "")

\* the price the provider stores for stripe.Price.create(**args)
CreatedPrice(prcs, args) ==
    Price(Len(prcs) + 1, args.product, args.unit_amount, args.currency, args.recurring)

\* the text shown for a price: amount, upper-case currency, "per interval"
PriceText(amount, currency, recurring) ==
    [amount |-> amount, currency |-> Upper(currency), per |-> recurring]

\* the card of one product in the recently-created list
RecentCard(product, plist) ==
    [name |-> product.name,
     description |-> IF product.description # "" THEN product.description
                     ELSE "No description",
     price_set |-> plist # << >>,
     price_info |-> IF plist # << >>
                    THEN PriceText(plist[1].unit_amount, plist[1].currency,
                                   plist[1].recurring)
                    ELSE NoPriceText,
     id |-> product.id]

\* the loop of fetch_recent_products; its failAt-th provider call raises
RECURSIVE RecentFrom(_, _, _, _, _, _)
RecentFrom(prcs, listed, i, failAt, cards, log) ==
    IF i > Len(listed) THEN [kind |-> "cards", cards |-> cards, e |-> NoError, calls |-> log]
    ELSE LET args == [product |-> listed[i].id, limit |-> RecentPriceLimit]
         IN  IF failAt = i + 1
             THEN [kind |-> "error", cards |-> << >>,
                   e |-> ProviderError("Price.list", i + 1),
                   calls |-> Append(log, Call("Price.list", FALSE, args))]
             ELSE RecentFrom(prcs, listed, i + 1, failAt,
                             Append(cards, RecentCard(listed[i],
                                        PriceList(prcs, listed[i].id, RecentPriceLimit))),
                             Append(log, Call("Price.list", TRUE, args)))

\* an except clause that returns the empty-list paragraph, without error text
fetch_recent_products_silent(prods, prcs, failAt) ==
    LET listArgs == [limit |-> RecentProductsLimit]
        r == RecentFrom(prcs, ProductList(prods, RecentProductsLimit), 1, failAt, << >>,
                        <<Call("Product.list", TRUE, listArgs)>>)
    IN  IF failAt = 1
        THEN [kind |-> "empty", cards |-> << >>, e |-> NoError,
              calls |-> <<Call("Product.list", FALSE, listArgs)>>]
        ELSE IF ProductList(prods, RecentProductsLimit) = << >>
        THEN [kind |-> "empty", cards |-> << >>, e |-> NoError,
              calls |-> <<Call("Product.list", TRUE, listArgs)>>]
        ELSE IF r.kind = "error" THEN [r EXCEPT !.kind = "empty", !.e = NoError]
        ELSE r

fetch_recent_products(prods, prcs, failAt) ==
    LET listArgs == [limit |-> RecentProductsLimit]
    IN  IF failAt = 1
        THEN [kind |-> "error", cards |-> << >>, e |-> ProviderError("Product.list", 1),
              calls |-> <<Call("Product.list", FALSE, listArgs)>>]
        ELSE IF ProductList(prods, RecentProductsLimit) = << >>
        THEN [kind |-> "empty", cards |-> << >>, e |-> NoError,
              calls |-> <<Call("Product.list", TRUE, listArgs)>>]
        ELSE RecentFrom(prcs, ProductList(prods, RecentProductsLimit), 1, failAt, << >>,
                        <<Call("Product.list", TRUE, listArgs)>>)

\* an error return that writes '' to the fields and an empty list
MessageOnlyClearing(kind, e, prods, prcs, log) ==
    [update |-> TRUE, clear |-> TRUE,
     message |-> [NoCreateMessage EXCEPT !.kind = kind, !.e = e],
     recent |-> NoRecent, products |-> prods, prices |-> prcs, calls |-> log,
     product_created |-> 0, price_created |-> 0, unit_amount |-> 0]

\* a return with dash.no_update for every output but the message
MessageOnly(kind, e, prods, prcs, log) ==
    [update |-> TRUE, clear |-> FALSE,
     message |-> [NoCreateMessage EXCEPT !.kind = kind, !.e = e],
     recent |-> NoRecent, products |-> prods, prices |-> prcs, calls |-> log,
     product_created |-> 0, price_created |-> 0, unit_amount |-> 0]

\* the ValueError of float() on a text that is no number
ValueError == [op |-> "float", n |-> 0]

\* create_product called with n_clicks = n and the field values f, on the
\* catalog (prods, prcs); its failAt-th provider call raises (0: none)
create_product(n, f, prods, prcs, failAt) ==
    IF n = 0
    THEN [MessageOnly("none", NoError, prods, prcs, << >>) EXCEPT !.update = FALSE]
    ELSE IF f.name = "" \/ ~Truthy(f.amount)
    THEN MessageOnly("required", NoError, prods, prcs, << >>)
    ELSE IF f.amount.kind = "text"
    THEN MessageOnly("error", ValueError, prods, prcs, << >>)
    ELSE
      LET amount_cents == AmountCents(f.amount.cents)
          pargs == product_data(f)
          product == CreatedProduct(prods, pargs)
          prods1 == <<product>> \o prods
          qargs == price_data(product, amount_cents, f)
          price == CreatedPrice(prcs, qargs)
          prcs1 == <<price>> \o prcs
          recent == fetch_recent_products(prods1, prcs1, IF failAt > 2 THEN failAt - 2 ELSE 0)
      IN  IF failAt = 1
          THEN MessageOnly("stripe_error", ProviderError("Product.create", 1), prods, prcs,
                           <<Call("Product.create", FALSE, pargs)>>)
          ELSE IF failAt = 2
          THEN [MessageOnly("stripe_error", ProviderError("Price.create", 2), prods1, prcs,
                            <<Call("Product.create", TRUE, pargs),
                              Call("Price.create", FALSE, qargs)>>)
                EXCEPT !.product_created = product.id]
          ELSE [update |-> TRUE, clear |-> TRUE,
                message |-> [kind |-> "success", e |-> NoError,
                             product_id |-> product.id, product_name |-> product.name,
                             price_id |-> price.id,
                             price |-> PriceText(f.amount.cents, f.currency, qargs.recurring)],
                recent |-> [kind |-> recent.kind, cards |-> recent.cards, e |-> recent.e],
                products |-> prods1, prices |-> prcs1,
                calls |-> <<Call("Product.create", TRUE, pargs),
                            Call("Price.create", TRUE, qargs)>> \o recent.calls,
                product_created |-> product.id, price_created |-> price.id,
                unit_amount |-> amount_cents]

\* the form fields after the handler returned: '' for the seven field outputs
FormAfter(f, clear) ==
    IF clear
    THEN [f EXCEPT !.name = "", !.description = "", !.image = "",
                   !.amount = AmountEmpty, !.nickname = "", !.meta_key = "",
                   !.meta_value = ""]
    ELSE f

\* a load_recent_products that fetches at every click
load_recent_products_every_click(n, prods, prcs, failAt) ==
    [update |-> TRUE, recent |-> fetch_recent_products(prods, prcs, failAt)]

\* load_recent_products called with n_clicks = n on the catalog (prods, prcs)
load_recent_products(n, prods, prcs, failAt) ==
    IF n = 0
    THEN [update |-> TRUE, recent |-> fetch_recent_products(prods, prcs, failAt)]
    ELSE [update |-> FALSE,
          recent |-> [kind |-> "none", cards |-> << >>, e |-> NoError, calls |-> << >>]]

(***************************************************************************)
(* The browser: page loads and clicks.                                     *)
(***************************************************************************)
\* the browser loads the creation page: the layout with its default values
ViewCreate ==
    /\ phase = "running"
    /\ page' = "create"
    /\ shown' = NoPage
    /\ n_clicks' = << >>
    /\ checkout_url' = NoUrl
    /\ form' = DefaultForm
    /\ create_message' = NoCreateMessage
    /\ recent_products' = NoRecent
    /\ submit_clicks' = 0
    /\ calls' = << >>
    /\ last' = [op |-> "view_create"]
    /\ UNCHANGED <<scriptVars, api_key, providerVars, homeModuleVars, tabs, analyticsVars>>

\* the user has the fields hold f and clicks Create: create_product runs,
\* then load_recent_products, both triggered by the button's n_clicks
Submit(f, failAt) ==
    /\ phase = "running" /\ page = "create"
    /\ submit_clicks < MaxSubmits
    /\ Len(products) < MaxProducts /\ Len(prices) < MaxPrices
    /\ failAt <= Len(create_product(1, f, products, prices, 0).calls)
    /\ ~Authenticated => failAt = (IF create_product(1, f, products, prices, 0).calls = << >>
                                  THEN 0 ELSE 1)
    /\ submit_clicks' = submit_clicks + 1
    /\ LET r == create_product(submit_clicks', f, products, prices, failAt)
           l == load_recent_products(submit_clicks', r.products, r.prices, 0)
       IN  /\ create_message' = IF r.update THEN r.message ELSE create_message
           /\ recent_products' =
                 IF l.update THEN [kind |-> l.recent.kind, cards |-> l.recent.cards,
                                   e |-> l.recent.e]
                 ELSE IF r.clear THEN r.recent ELSE recent_products
           /\ form' = FormAfter(f, r.clear)
           /\ products' = r.products
           /\ prices' = r.prices
           /\ calls' = r.calls \o l.recent.calls
           /\ last' = [op |-> "submit", form |-> f, failAt |-> failAt,
                       product_created |-> r.product_created,
                       price_created |-> r.price_created,
                       unit_amount |-> r.unit_amount]
    /\ UNCHANGED <<scriptVars, api_key, nsessions, session, homeModuleVars, page, homePageVars, tabs,
                   analyticsVars>>

\* the browser loads the catalog page: the layout object built at import
ViewHome ==
    /\ phase = "running"
    /\ page' = "home"
    /\ shown' = HomeLayout
    /\ n_clicks' = [i \in 1..Len(products_df) |-> 0]
    /\ checkout_url' = NoUrl
    /\ form' = DefaultForm
    /\ create_message' = NoCreateMessage
    /\ recent_products' = NoRecent
    /\ submit_clicks' = 0
    /\ calls' = << >>
    /\ last' = [op |-> "view_home"]
    /\ UNCHANGED <<scriptVars, api_key, providerVars, homeModuleVars, tabs, analyticsVars>>

\* index of the first button whose n_clicks is positive (0: none)
ClickedIndex(clicks) ==
    IF \A i \in 1..Len(clicks) : clicks[i] = 0 THEN 0
    ELSE CHOOSE i \in 1..Len(clicks) :
            clicks[i] > 0 /\ \A k \in 1..(i - 1) : clicks[k] = 0

\* the mode with the flag compared in the wrong letter case
SessionModeWrongCase(recurring) == IF recurring = "yes" THEN "subscription" ELSE "payment"

\* mode='subscription' if ...['recurring'] == 'Yes' else 'payment'
SessionMode(recurring) == IF recurring = "Yes" THEN "subscription" ELSE "payment"

\* the except branch returning None instead of raising PreventUpdate
BuyFailedReturnsNone(args) ==
    [update |-> TRUE, url |-> NoUrl, created |-> NoSession, logged |-> TRUE,
     calls |-> <<Call("Session.create", FALSE, args)>>]

\* the except branch: print the error, raise PreventUpdate
BuyFailed(args) ==
    [update |-> FALSE, url |-> NoUrl, created |-> NoSession, logged |-> TRUE,
     calls |-> <<Call("Session.create", FALSE, args)>>]

\* handle_buy_button called with the list of n_clicks; ok: Session.create succeeds
handle_buy_button(clicks, ok) ==
    LET clicked_index == ClickedIndex(clicks)
        row == products_df[clicked_index]
        args == [price |-> row.price_id, quantity |-> 1,
                 mode |-> SessionMode(row.recurring)]
    IN  IF clicked_index = 0
        THEN [update |-> FALSE, url |-> NoUrl, created |-> NoSession, logged |-> FALSE,
              calls |-> << >>]
        ELSE IF ok
        THEN [update |-> TRUE, url |-> nsessions + 1,
              created |-> [id |-> nsessions + 1, price |-> args.price,
                           quantity |-> args.quantity, mode |-> args.mode],
              logged |-> FALSE,
              calls |-> <<Call("Session.create", TRUE, args)>>]
        ELSE BuyFailed(args)

\* a click on the Buy button of card j
ClickBuy(j, ok) ==
    /\ phase = "running" /\ page = "home"
    /\ j \in 1..Len(n_clicks)
    /\ n_clicks[j] < MaxClicks
    /\ nsessions < MaxSessions
    /\ ~Authenticated => ~ok
    /\ n_clicks' = [n_clicks EXCEPT ![j] = @ + 1]
    /\ LET r == handle_buy_button(n_clicks', ok)
       IN  /\ checkout_url' = IF r.update THEN r.url ELSE checkout_url
           /\ tabs' = IF r.created # NoSession THEN Append(tabs, r.url) ELSE tabs
           /\ nsessions' = IF r.created # NoSession THEN nsessions + 1 ELSE nsessions
           /\ session' = IF r.created # NoSession THEN r.created ELSE session
           /\ calls' = r.calls
           /\ last' = [op |-> "buy", clicked |-> j, ok |-> ok, logged |-> r.logged,
                       after_failure |-> (last.op = "buy" /\ ~last.ok)]
    /\ UNCHANGED <<scriptVars, api_key, products, prices, homeModuleVars, page, shown, createPageVars,
                   analyticsVars>>

(***************************************************************************)
(* pages/analytics.py                                                      *)
(***************************************************************************)
MaxTicks == 2         \* days the clock advances at most

Statuses == {"succeeded", "requires_payment_method"}
PaymentAmounts == {1000, 2550}

Payment(status, amount, created) ==
    [status |-> status, amount |-> amount, currency |-> "usd", created |-> created]

\* payment intents the account may hold when the application starts
InitialPayments ==
    { << >>,
      <<Payment("succeeded", 1000, 0)>>,
      <<Payment("succeeded", 2550, WindowDays), Payment("requires_payment_method", 1000, 0)>> }

\* stripe.PaymentIntent.list(limit=n, created={'gte': since}).data
PaymentIntentList(n, since) ==
    Take(SelectSeq(payments, LAMBDA p : p.created >= since), n)

\* the rows appended by the loop of fetch_revenue_data; an amount is held in
\* hundredths, which stands for the quotient payment.amount / 100
RevenueRow(payment) ==
    [date |-> payment.created, amount |-> payment.amount,
     currency |-> Upper(payment.currency)]

\* a loop that keeps the records of every status
KeepAll(listed) == [i \in 1..Len(listed) |-> RevenueRow(listed[i])]

KeepSucceeded(listed) ==
    LET kept == SelectSeq(listed, LAMBDA p : p.status = "succeeded")
    IN  [i \in 1..Len(kept) |-> RevenueRow(kept[i])]

\* fetch_revenue_data; ok: PaymentIntent.list succeeds
fetch_revenue_data(ok) ==
    LET thirty_days_ago == now - WindowDays
        args == [limit |-> PaymentListLimit, gte |-> thirty_days_ago]
    IN  IF ok
        THEN [raised |-> NoError,
              revenue_data |-> KeepSucceeded(PaymentIntentList(PaymentListLimit,
                                                               thirty_days_ago)),
              calls |-> <<Call("PaymentIntent.list", TRUE, args)>>]
        ELSE [raised |-> ProviderError("PaymentIntent.list", 1), revenue_data |-> << >>,
              calls |-> <<Call("PaymentIntent.list", FALSE, args)>>]

RECURSIVE SumAmounts(_)
SumAmounts(df) ==
    IF df = << >> THEN 0 ELSE df[1].amount + SumAmounts(Tail(df))

\* a quotient held as numerator and denominator
Quotient(num, den) == [num |-> num, den |-> den]
Zero == Quotient(0, 1)

\* a mean taken over the days with data instead of over the records
MeanPerDay(df) == Quotient(SumAmounts(df), Cardinality({df[i].date : i \in 1..Len(df)}))

\* revenue_df['amount'].mean()
Mean(df) == Quotient(SumAmounts(df), Len(df))

\* the dates of a set in increasing order
RECURSIVE SortedDates(_)
SortedDates(dates) ==
    IF dates = {} THEN << >>
    ELSE LET first == CHOOSE d \in dates : \A o \in dates : d <= o
         IN  <<first>> \o SortedDates(dates \ {first})

\* revenue_df.groupby('date').agg({'amount': ['sum', 'count']}).reset_index()
GroupByDate(df) ==
    LET dates == SortedDates({df[i].date : i \in 1..Len(df)})
    IN  [k \in 1..Len(dates) |->
            LET rows == SelectSeq(df, LAMBDA r : r.date = dates[k])
            IN  [date |-> dates[k], revenue |-> SumAmounts(rows), volume |-> Len(rows)]]

\* a chart drawn without the test for an empty frame
create_revenue_chart_no_placeholder(df) ==
    [kind |-> "chart", daily_revenue |-> GroupByDate(df)]

\* create_revenue_chart: the placeholder figure, or the two daily series
create_revenue_chart(df) ==
    IF df = << >> THEN [kind |-> "no_data", daily_revenue |-> << >>]
    ELSE [kind |-> "chart", daily_revenue |-> GroupByDate(df)]

\* the metrics without the test for an empty frame: the mean of no record
MetricsUnguarded(df) ==
    [total_revenue |-> SumAmounts(df), total_transactions |-> Len(df),
     avg_transaction |-> Mean(df)]

\* the module-level metrics
Metrics(df) ==
    IF df = << >>
    THEN [total_revenue |-> 0, total_transactions |-> 0, avg_transaction |-> Zero]
    ELSE [total_revenue |-> SumAmounts(df), total_transactions |-> Len(df),
          avg_transaction |-> Mean(df)]

NoAnalyticsPage ==
    [banners |-> << >>, total_revenue |-> 0, total_transactions |-> 0,
     avg_transaction |-> Zero, figure |-> [kind |-> "none", daily_revenue |-> << >>]]

\* the module-level layout
AnalyticsLayout ==
    [banners |-> IF analytics_error_message # NoMessage
                 THEN <<analytics_error_message>> ELSE << >>,
     total_revenue |-> total_revenue, total_transactions |-> total_transactions,
     avg_transaction |-> avg_transaction, figure |-> figure]

\* import of pages/analytics.py when the Dash application is constructed
ImportAnalytics(ok) ==
    /\ analytics_phase = "boot"
    /\ ~Authenticated => ~ok
    /\ LET r == fetch_revenue_data(ok)
           df == IF r.raised = NoError THEN r.revenue_data ELSE << >>
           m == Metrics(df)
       IN  /\ revenue_df' = df
           /\ analytics_error_message' =
                 IF r.raised = NoError THEN NoMessage
                 ELSE [text |-> "Error fetching Stripe revenue data", e |-> r.raised]
           /\ total_revenue' = m.total_revenue
           /\ total_transactions' = m.total_transactions
           /\ avg_transaction' = m.avg_transaction
           /\ figure' = create_revenue_chart(df)
           /\ calls' = r.calls
           /\ last' = [op |-> "import_analytics", ok |-> ok]
    /\ analytics_phase' = "running"
    /\ UNCHANGED <<scriptVars, api_key, providerVars, homeModuleVars, page, homePageVars, tabs, createPageVars,
                   payments, now, analytics_shown>>

\* the browser loads the analytics page: the layout object built at import
ViewAnalytics ==
    /\ analytics_phase = "running"
    /\ page' = "analytics"
    /\ analytics_shown' = AnalyticsLayout
    /\ shown' = NoPage
    /\ n_clicks' = << >>
    /\ checkout_url' = NoUrl
    /\ form' = DefaultForm
    /\ create_message' = NoCreateMessage
    /\ recent_products' = NoRecent
    /\ submit_clicks' = 0
    /\ calls' = << >>
    /\ last' = [op |-> "view_analytics"]
    /\ UNCHANGED <<scriptVars, api_key, providerVars, homeModuleVars, tabs, payments, now, analyticsModuleVars>>

\* a payment intent is created at the provider
NewPayment(status, amount) ==
    /\ Len(payments) < MaxPayments
    /\ payments' = <<Payment(status, amount, now)>> \o payments
    /\ calls' = << >>
    /\ last' = [op |-> "new_payment"]
    /\ UNCHANGED <<scriptVars, api_key, providerVars, homeModuleVars, page, homePageVars, tabs, createPageVars,
                   now, analyticsModuleVars, analytics_shown>>

\* a day passes
Tick ==
    /\ now < WindowDays + MaxTicks
    /\ now' = now + 1
    /\ calls' = << >>
    /\ last' = [op |-> "tick"]
    /\ UNCHANGED <<scriptVars, api_key, providerVars, homeModuleVars, page, homePageVars, tabs, createPageVars,
                   payments, analyticsModuleVars, analytics_shown>>

(***************************************************************************)
(* stripe_tests/stripe_api_basics.py                                       *)
(***************************************************************************)
MaxCustomers == 2     \* customers Customer.list returns at most

ScriptListLimit == 3  \* stripe_api_basics.py: list(limit=3)

\* a text is the sequence of its characters
SkTest == <<"s", "k", "_", "t", "e", "s", "t", "_">>
SkLive == <<"s", "k", "_", "l", "i", "v", "e", "_">>

\* the value of the environment variable: None, or a text
EnvNone == [set |-> FALSE, text |-> << >>]
EnvText(t) == [set |-> TRUE, text |-> t]

ScriptKeys ==
    { EnvNone, EnvText(<< >>),
      EnvText(SkTest \o <<"1">>), EnvText(SkLive \o <<"1">>), EnvText(SkTest),
      EnvText(<<"p", "k", "_", "t", "e", "s", "t", "_", "1">>),
      EnvText(<<"s", "k", "_", "t", "e", "s", "t">>),
      EnvText(<<"S", "K", "_", "T", "E", "S", "T", "_", "1">>),
      EnvText(<<"x">> \o SkLive) }

\* Python truth value of the environment value
KeyTruthy(key) == key.set /\ key.text # << >>

\* str.startswith
StartsWith(t, prefix) == Len(t) >= Len(prefix) /\ SubSeq(t, 1, Len(prefix)) = prefix

NotExited == 0 - 1

\* a printed line: what it says and the number it holds
Line(text, n) == [line |-> text, n |-> n]

\* what a provider call of the script does: succeed, or raise
Outcomes == {"ok", "AuthenticationError", "APIConnectionError", "OtherError"}

\* except clauses without the last one, except Exception
ScriptExceptNoCatchAll(outcome) ==
    IF outcome = "AuthenticationError"
    THEN [handled |-> TRUE, line |-> Line("authentication_error", 0)]
    ELSE IF outcome = "APIConnectionError"
    THEN [handled |-> TRUE, line |-> Line("network_error", 0)]
    ELSE [handled |-> FALSE, line |-> Line("traceback", 0)]

\* the except clauses of the try block: the clause that takes the exception
ScriptExcept(outcome) ==
    IF outcome = "AuthenticationError"
    THEN [handled |-> TRUE, line |-> Line("authentication_error", 0)]
    ELSE IF outcome = "APIConnectionError"
    THEN [handled |-> TRUE, line |-> Line("network_error", 0)]
    ELSE [handled |-> TRUE, line |-> Line("unexpected_error", 0)]

\* if not api_key: print the error, exit(1)
ScriptCheckKey ==
    /\ script_pc = "check_key"
    /\ IF ~KeyTruthy(script_key)
       THEN /\ printed' = Append(printed, Line("no_key_error", 0))
            /\ script_pc' = "exited"
            /\ exit_status' = 1
       ELSE /\ script_pc' = "check_prefix"
            /\ UNCHANGED <<printed, exit_status>>
    /\ calls' = calls
    /\ last' = [op |-> "script", step |-> "check_key", ok |-> TRUE]
    /\ UNCHANGED <<script_key, api_key, providerVars, homeModuleVars, page, homePageVars,
                   tabs, createPageVars, analyticsVars>>

\* the test of the key's prefix: test mode, live mode, or exit(1)
ScriptCheckPrefix ==
    /\ script_pc = "check_prefix"
    /\ IF StartsWith(script_key.text, SkTest)
       THEN /\ printed' = Append(printed, Line("test_mode", 0))
            /\ script_pc' = "account"
            /\ UNCHANGED exit_status
       ELSE IF StartsWith(script_key.text, SkLive)
       THEN /\ printed' = Append(printed, Line("live_mode_warning", 0))
            /\ script_pc' = "account"
            /\ UNCHANGED exit_status
       ELSE /\ printed' = Append(printed, Line("invalid_key_format", 0))
            /\ script_pc' = "exited"
            /\ exit_status' = 1
    /\ calls' = calls
    /\ last' = [op |-> "script", step |-> "check_prefix", ok |-> TRUE]
    /\ UNCHANGED <<script_key, api_key, providerVars, homeModuleVars, page, homePageVars,
                   tabs, createPageVars, analyticsVars>>

\* one provider call inside the try block: when it succeeds its lines are
\* printed and the block goes on at nextPc; when it raises, the except
\* clause that takes the exception prints, and the script goes on after
\* the block; an exception no clause takes ends the process
ScriptCall(pc, op, args, outcome, lines, nextPc) ==
    /\ script_pc = pc
    /\ calls' = Append(calls, Call(op, outcome = "ok", args))
    /\ IF outcome = "ok"
       THEN /\ printed' = printed \o lines
            /\ script_pc' = nextPc
            /\ UNCHANGED exit_status
       ELSE IF ScriptExcept(outcome).handled
       THEN /\ printed' = Append(printed, ScriptExcept(outcome).line)
            /\ script_pc' = "end"
            /\ UNCHANGED exit_status
       ELSE /\ printed' = Append(printed, ScriptExcept(outcome).line)
            /\ script_pc' = "crashed"
            /\ exit_status' = 1
    /\ last' = [op |-> "script", step |-> op, ok |-> outcome = "ok"]
    /\ UNCHANGED <<script_key, api_key, providerVars, homeModuleVars, page, homePageVars,
                   tabs, createPageVars, analyticsVars>>

ScriptAccountRetrieve(outcome) ==
    ScriptCall("account", "Account.retrieve", [account |-> "own"], outcome,
               <<Line("connected", 0)>>, "products")

\* Product.list(limit=3): the number found, then the names or the hint
ScriptProductList(outcome) ==
    LET found == ProductList(products, ScriptListLimit)
    IN  ScriptCall("products", "Product.list", [limit |-> ScriptListLimit], outcome,
                   IF found # << >>
                   THEN <<Line("found_products", Len(found))>>
                        \o [i \in 1..Len(found) |-> Line(found[i].name, found[i].id)]
                   ELSE <<Line("found_products", 0), Line("no_products_hint", 0)>>,
                   "customers")

\* Customer.list(limit=3) returning n customers
ScriptCustomerList(outcome, n) ==
    ScriptCall("customers", "Customer.list", [limit |-> ScriptListLimit], outcome,
               <<Line("found_customers", n)>>, "payments")

\* PaymentIntent.list(limit=3), then the lines that end the try block
ScriptPaymentIntentList(outcome) ==
    ScriptCall("payments", "PaymentIntent.list", [limit |-> ScriptListLimit], outcome,
               <<Line("found_payments", Len(Take(payments, ScriptListLimit))),
                 Line("all_tests_passed", 0)>>, "end")

\* the last print of the script; the process ends with status 0
ScriptFinish ==
    /\ script_pc = "end"
    /\ printed' = Append(printed, Line("separator", 0))
    /\ script_pc' = "done"
    /\ exit_status' = 0
    /\ calls' = calls
    /\ last' = [op |-> "script", step |-> "finish", ok |-> TRUE]
    /\ UNCHANGED <<script_key, api_key, providerVars, homeModuleVars, page, homePageVars,
                   tabs, createPageVars, analyticsVars>>

(***************************************************************************)
(* Specifications.                                                         *)
(***************************************************************************)
InitPages ==
    /\ nsessions = 0
    /\ session = NoSession
    /\ phase = "boot"
    /\ products_df = << >>
    /\ error_message = NoMessage
    /\ page = "none"
    /\ shown = NoPage
    /\ n_clicks = << >>
    /\ checkout_url = NoUrl
    /\ tabs = << >>
    /\ form = DefaultForm
    /\ create_message = NoCreateMessage
    /\ recent_products = NoRecent
    /\ submit_clicks = 0
    /\ calls = << >>
    /\ last = [op |-> "init"]
    /\ now = WindowDays
    /\ analytics_phase = "boot"
    /\ revenue_df = << >>
    /\ analytics_error_message = NoMessage
    /\ total_revenue = 0
    /\ total_transactions = 0
    /\ avg_transaction = Zero
    /\ figure = [kind |-> "none", daily_revenue |-> << >>]
    /\ analytics_shown = NoAnalyticsPage

\* the connectivity script has not been started
ScriptNotRun ==
    /\ script_key = EnvNone
    /\ script_pc = "check_key"
    /\ exit_status = NotExited
    /\ printed = << >>

\* the catalog view and the creation form on an account without payments
Init ==
    /\ api_key \in Keys
    /\ \E c \in InitialCatalogs : products = c.products /\ prices = c.prices
    /\ payments = << >>
    /\ InitPages
    /\ ScriptNotRun

Next ==
    \/ \E failAt \in 0..(MaxProducts + 1) : ImportHome(failAt)
    \/ ViewHome
    \/ \E j \in 1..MaxPrices : \E ok \in BOOLEAN : ClickBuy(j, ok)
    \/ ViewCreate
    \/ \E f \in FormInputs : \E failAt \in 0..(MaxProducts + 3) : Submit(f, failAt)

Spec == Init /\ [][Next]_vars

\* the analytics view on an account without products
InitAnalytics ==
    /\ api_key \in Keys
    /\ products = << >> /\ prices = << >>
    /\ payments \in InitialPayments
    /\ InitPages
    /\ ScriptNotRun

NextAnalytics ==
    \/ \E ok \in BOOLEAN : ImportAnalytics(ok)
    \/ ViewAnalytics
    \/ \E st \in Statuses : \E a \in PaymentAmounts : NewPayment(st, a)
    \/ Tick

SpecAnalytics == InitAnalytics /\ [][NextAnalytics]_vars

\* the handlers of the three views that call the provider, on one account
\* that holds products, a payment that succeeded and one that did not; the
\* forms submitted are those that reach the provider
InitViews ==
    /\ api_key \in Keys
    /\ \E c \in {x \in InitialCatalogs : x.products # << >>} :
          products = c.products /\ prices = c.prices
    /\ payments = <<Payment("succeeded", 2550, WindowDays),
                    Payment("requires_payment_method", 1000, 0)>>
    /\ InitPages
    /\ ScriptNotRun

NextViews ==
    \/ \E failAt \in 0..(MaxProducts + 1) : ImportHome(failAt)
    \/ ViewHome
    \/ \E j \in 1..MaxPrices : \E ok \in BOOLEAN : ClickBuy(j, ok)
    \/ ViewCreate
    \/ \E f \in ValidForms : \E failAt \in 0..(MaxProducts + 3) : Submit(f, failAt)
    \/ \E ok \in BOOLEAN : ImportAnalytics(ok)

SpecViews == InitViews /\ [][NextViews]_vars

\* one run of the connectivity script; the dashboard is not started
InitBasics ==
    /\ api_key = None
    /\ \E c \in InitialCatalogs : products = c.products /\ prices = c.prices
    /\ payments \in InitialPayments
    /\ InitPages
    /\ script_key \in ScriptKeys
    /\ script_pc = "check_key"
    /\ exit_status = NotExited
    /\ printed = << >>

NextBasics ==
    \/ ScriptCheckKey
    \/ ScriptCheckPrefix
    \/ \E outcome \in Outcomes : ScriptAccountRetrieve(outcome)
    \/ \E outcome \in Outcomes : ScriptProductList(outcome)
    \/ \E outcome \in Outcomes : \E n \in 0..MaxCustomers : ScriptCustomerList(outcome, n)
    \/ \E outcome \in Outcomes : ScriptPaymentIntentList(outcome)
    \/ ScriptFinish

SpecBasics == InitBasics /\ [][NextBasics]_vars

(***************************************************************************)
(* Properties of the creation form and of the catalog view.                *)
(***************************************************************************)
CallsOf(op) == {k \in 1..Len(calls) : calls[k].op = op}

\* C1: in a submission, Price.create is called only directly after a
\* Product.create that succeeded, with the identifier that call returned,
\* which is the identifier of the product the provider stored; after a failed
\* Product.create there is no Price.create.
C1_PriceAfterProduct ==
    last.op = "submit" =>
        /\ \A k \in CallsOf("Price.create") :
              /\ k > 1
              /\ calls[k - 1].op = "Product.create" /\ calls[k - 1].ok
              /\ calls[k].args.product = last.product_created
              /\ products[1].id = last.product_created
              /\ calls[k].ok => prices[1].product = products[1].id
        /\ (\E j \in CallsOf("Product.create") : ~calls[j].ok)
              => CallsOf("Price.create") = {}

C1_Witness ==
    /\ last.op = "submit"
    /\ CallsOf("Price.create") # {}
    /\ Len(products) >= 2

LocallyRejected(f) == f.name = "" \/ f.amount.kind \in {"empty", "text"}

\* C2 as stated: a submission with an empty name or an empty or non-numeric
\* amount makes no provider call and shows the 'required' error.
C2_Original ==
    (last.op = "submit" /\ LocallyRejected(last.form)) =>
        (calls = << >> /\ create_message.kind = "required")

\* C2 amended: such a submission makes no provider call; it shows the
\* 'required' error when the name or the amount is empty, and the generic
\* error of the except clause when the amount is a text that is no number.
C2_Amended ==
    (last.op = "submit" /\ LocallyRejected(last.form)) =>
        /\ calls = << >>
        /\ create_message.kind =
              IF last.form.name = "" \/ last.form.amount.kind = "empty"
              THEN "required" ELSE "error"

C2_Witness ==
    /\ last.op = "submit"
    /\ last.form.name # "" /\ last.form.amount.kind = "text"
    /\ create_message.kind = "error"
    /\ calls = << >>

\* C3: every Buy click that creates a session creates it for the price of
\* the card whose button was clicked, with quantity 1.
C3_Claim ==
    (last.op = "buy" /\ last.ok) =>
        /\ session.price = products_df[last.clicked].price_id
        /\ session.quantity = 1

\* C4: the mode of a created session is 'subscription' if the provider's
\* price of its line item is recurring and 'payment' if it is not.
C4_ModeMatchesPrice ==
    nsessions > 0 =>
        session.mode = IF PriceById(session.price).recurring # None
                       THEN "subscription" ELSE "payment"

C4_Witness ==
    /\ last.op = "buy" /\ last.ok
    /\ session.mode = "subscription"
    /\ PriceById(session.price).recurring = "month"

\* C5: the cards of a catalog load are the cards of the provider's catalog
\* at the time of that load.
C5_Claim ==
    (last.op = "view_home" /\ error_message = NoMessage) =>
        shown.cards =
            create_product_cards(fetch_products_data(products, prices, 0).products_data).cards

\* C6: when Product.create succeeded and Price.create failed, the message
\* shown names the product that was created.
C6_Claim ==
    (last.op = "submit" /\ last.product_created # 0 /\ last.price_created = 0) =>
        create_message.product_id = last.product_created

\* C7: the unit_amount sent in Price.create is exactly 100 times the amount
\* of the form, and no other amount is sent with the same unit_amount.
C7_Claim ==
    (last.op = "submit" /\ CallsOf("Price.create") # {}) =>
        \A k \in CallsOf("Price.create") :
            /\ calls[k].args.unit_amount = last.form.amount.cents
            /\ \A other \in AmountNumbers \ {last.form.amount.cents} :
                  AmountCents(other) # calls[k].args.unit_amount

\* C8: when a provider call of the catalog fetch fails, the module keeps an
\* empty frame and an error message, and the catalog page renders with one
\* banner and no card.
C8_FetchFailureBanner ==
    /\ (last.op = "import_home" /\ last.failAt > 0) => error_message # NoMessage
    /\ error_message # NoMessage => products_df = << >>
    /\ (page = "home" /\ error_message # NoMessage) =>
          (Len(shown.banners) = 1 /\ shown.cards = << >>)

C8_Witness ==
    /\ page = "home"
    /\ Len(shown.banners) = 1
    /\ error_message.e.op = "Price.list" /\ error_message.e.n >= 3

\* C9: a Buy click whose Session.create fails only logs: the checkout-url
\* output, the opened tabs, the rendered page and the module's frame stay as
\* they were and no session exists more; a click after it that succeeds
\* creates its session, outputs its url and opens its tab.
C9_FailureOnlyLogged ==
    [][ /\ (last'.op = "buy" /\ ~last'.ok) =>
              /\ last'.logged
              /\ checkout_url' = checkout_url /\ tabs' = tabs /\ shown' = shown
              /\ products_df' = products_df /\ error_message' = error_message
              /\ nsessions' = nsessions /\ session' = session
        /\ (last'.op = "buy" /\ last'.ok /\ last'.after_failure) =>
              /\ nsessions' = nsessions + 1
              /\ checkout_url' = session'.id
              /\ tabs' = Append(tabs, session'.id) ]_vars

C9_Witness ==
    /\ last.op = "buy" /\ ~last.ok /\ last.logged
    /\ checkout_url # NoUrl
    /\ shown.banners = << >>

\* C13: with a credential that is absent or malformed, no handler attempts a
\* provider call.
C13_Claim ==
    ~Authenticated => calls = << >>

\* C14: the Price.create call of a submission has the recurring attribute
\* exactly when the price type is 'recurring', its interval is then the
\* selected interval, and it has the selected currency; the price the
\* provider stores has the same attributes.
C14_RecurringIffType ==
    last.op = "submit" =>
        \A k \in CallsOf("Price.create") :
            LET recurring == IF last.form.price_type = "recurring"
                             THEN last.form.interval ELSE None
            IN  /\ calls[k].args.recurring = recurring
                /\ calls[k].args.currency = last.form.currency
                /\ calls[k].ok => /\ prices[1].recurring = recurring
                                  /\ prices[1].currency = last.form.currency

C14_Witness ==
    /\ last.op = "submit" /\ last.price_created # 0
    /\ last.form.price_type = "one_time" /\ last.form.interval = "year"
    /\ last.form.currency = "eur"
    /\ prices[1].recurring = None

\* C15: after a submission in which Product.create and Price.create both
\* succeeded, every field of the form holds its initial value and the
\* confirmation names the product and the price.
C15_Claim ==
    (last.op = "submit" /\ last.price_created # 0) =>
        /\ form = DefaultForm
        /\ create_message.kind = "success"
        /\ create_message.product_id = last.product_created
        /\ create_message.price_id = last.price_created

\* the products listed by the fetch and, of one product, its prices
ListedProducts == {products[i] : i \in 1..Len(products)}
PricesOf(pid) == {prices[k] : k \in {j \in 1..Len(prices) : prices[j].product = pid}}

RECURSIVE CountPairs(_)
CountPairs(prods) ==
    IF prods = {} THEN 0
    ELSE LET p == CHOOSE x \in prods : TRUE
         IN  Cardinality(PricesOf(p.id)) + CountPairs(prods \ {p})

\* C16: after a successful fetch the catalog has one card for each pair of a
\* product and one of its prices and no other card: the number of cards is
\* the sum of the products' numbers of prices, every pair has exactly one
\* card, a product without price has none, and the price of a card is a
\* price of the product the card shows.
C16_OneCardPerPair ==
    (last.op = "import_home" /\ last.failAt = 0) =>
        LET cards == HomeLayout.cards
        IN  /\ Len(cards) = CountPairs(ListedProducts)
            /\ \A p \in ListedProducts : \A q \in PricesOf(p.id) :
                  Cardinality({i \in 1..Len(cards) :
                                  cards[i].price_id = q.id /\ cards[i].name = p.name}) = 1
            /\ \A p \in ListedProducts :
                  PricesOf(p.id) = {} => \A i \in 1..Len(cards) : cards[i].name # p.name
            /\ \A i \in 1..Len(cards) :
                  \E p \in ListedProducts :
                      /\ cards[i].name = p.name
                      /\ PriceById(cards[i].price_id).product = p.id

C16_Witness ==
    /\ last.op = "import_home" /\ last.failAt = 0
    /\ Len(products) = 2
    /\ \E p \in ListedProducts : PricesOf(p.id) = {}
    /\ Len(HomeLayout.cards) = 1

ReadCalls == {"Product.list", "Price.list"}

\* C17: fetching and rendering the catalog a second time, the provider's
\* catalog being what it was, gives the cards of the first time, and loading
\* the catalog page again gives the page again; the fetch and the page load
\* make only list calls and leave the provider's catalog as it was.
C17_RenderIdempotent ==
    /\ [](last.op = "import_home" /\ last.failAt = 0 =>
            create_product_cards(fetch_products_data(products, prices, 0).products_data)
                = create_product_cards(products_df))
    /\ [][ /\ last'.op \in {"import_home", "view_home"} =>
                /\ products' = products /\ prices' = prices
                /\ nsessions' = nsessions /\ session' = session
                /\ \A k \in 1..Len(calls') : calls'[k].op \in ReadCalls
           /\ (last'.op = "view_home" /\ page = "home") => shown' = shown ]_vars

C17_Witness ==
    /\ last.op = "view_home"
    /\ Len(shown.cards) = 2
    /\ nsessions > 0
    /\ \E i, j \in 1..Len(shown.cards) :
          shown.cards[i].label = "Subscription" /\ shown.cards[j].label = "One-time payment"

\* C20: a submission whose Product.create and Price.create succeeded and
\* whose fetch of the recent products failed, in Product.list or in a
\* Price.list, shows the confirmation with the identifiers of the product and
\* the price the provider now holds, empties the fields the handler outputs,
\* and shows the error text in the recent-products area.
C20_RecentFailureStillSuccess ==
    (last.op = "submit" /\ last.failAt > 2) =>
        /\ create_message.kind = "success"
        /\ create_message.product_id = last.product_created
        /\ create_message.price_id = last.price_created
        /\ products[1].id = last.product_created
        /\ prices[1].id = last.price_created /\ prices[1].product = products[1].id
        /\ form.name = "" /\ form.description = "" /\ form.image = ""
        /\ form.amount = AmountEmpty /\ form.nickname = ""
        /\ form.meta_key = "" /\ form.meta_value = ""
        /\ recent_products.kind = "error"
        /\ recent_products.cards = << >>
        /\ recent_products.e.op \in ReadCalls

C20_Witness ==
    /\ last.op = "submit" /\ last.failAt > 3
    /\ create_message.kind = "success"
    /\ recent_products.kind = "error" /\ recent_products.e.op = "Price.list"
    /\ last.form.description # ""

ErrorKinds == {"required", "error", "stripe_error"}

\* C22: a submission that ends in an error message (required fields, a
\* provider error at the product step or at the price step, any other
\* exception) leaves every field with the value it was submitted with and
\* the recently-created list as it was; of the page only the message changes.
C22_ErrorKeepsForm ==
    [][ (last'.op = "submit" /\ create_message'.kind \in ErrorKinds) =>
            /\ form' = last'.form
            /\ recent_products' = recent_products
            /\ page' = page
            /\ create_message'.product_id = 0 /\ create_message'.price_id = 0 ]_vars

C22_Witness ==
    /\ last.op = "submit"
    /\ create_message.kind = "stripe_error"
    /\ last.product_created # 0
    /\ recent_products.kind = "cards"
    /\ form.name = "Widget" /\ form.amount.kind = "number"

RECURSIVE SumRevenue(_)
SumRevenue(daily) ==
    IF daily = << >> THEN 0 ELSE daily[1].revenue + SumRevenue(Tail(daily))

RECURSIVE SumVolume(_)
SumVolume(daily) ==
    IF daily = << >> THEN 0 ELSE daily[1].volume + SumVolume(Tail(daily))

\* C10: total revenue is the sum of the per-day revenues, the transaction
\* count is the sum of the per-day counts, and the average transaction is
\* total revenue divided by the count, 0 when the count is 0.
C10_TotalsMatchDaily ==
    analytics_phase = "running" =>
        /\ total_revenue = SumRevenue(figure.daily_revenue)
        /\ total_transactions = SumVolume(figure.daily_revenue)
        /\ avg_transaction.num * total_transactions = total_revenue * avg_transaction.den
        /\ avg_transaction.den > 0
        /\ total_transactions = 0 => avg_transaction.num = 0

C10_Witness ==
    /\ analytics_phase = "running"
    /\ Len(figure.daily_revenue) >= 2
    /\ \E i \in 1..Len(figure.daily_revenue) : figure.daily_revenue[i].volume >= 2

\* the provider's records of the window ending now that succeeded
SucceededInWindow ==
    SelectSeq(payments, LAMBDA p : p.status = "succeeded" /\ p.created >= now - WindowDays)

EmptyAnalytics ==
    [total_revenue |-> 0, total_transactions |-> 0, avg_transaction |-> Zero,
     figure |-> [kind |-> "no_data", daily_revenue |-> << >>]]

\* C11: when the fetch of the payment records fails, the module keeps an
\* error message, an empty frame, metrics 0 and the no-data figure, and the
\* analytics page renders with exactly one banner, the three metrics 0 and
\* the no-data placeholder.
C11_FetchFailureZeroes ==
    /\ (last.op = "import_analytics" /\ ~last.ok) => analytics_error_message # NoMessage
    /\ analytics_error_message # NoMessage =>
          /\ revenue_df = << >>
          /\ [total_revenue |-> total_revenue, total_transactions |-> total_transactions,
              avg_transaction |-> avg_transaction, figure |-> figure] = EmptyAnalytics
    /\ (page = "analytics" /\ analytics_error_message # NoMessage) =>
          analytics_shown = [banners |-> <<analytics_error_message>>] @@ EmptyAnalytics

C11_Witness ==
    /\ page = "analytics"
    /\ Len(analytics_shown.banners) = 1
    /\ analytics_shown.figure.kind = "no_data"
    /\ SucceededInWindow # << >>

\* C12: the metrics and the chart of an analytics page load are computed from
\* the provider's records at the time of the load, over the window that ends
\* at the time of the load.
C12_Claim ==
    (last.op = "view_analytics" /\ analytics_error_message = NoMessage) =>
        LET df == fetch_revenue_data(TRUE).revenue_data
        IN  /\ analytics_shown.total_revenue = Metrics(df).total_revenue
            /\ analytics_shown.total_transactions = Metrics(df).total_transactions
            /\ analytics_shown.avg_transaction = Metrics(df).avg_transaction
            /\ analytics_shown.figure = create_revenue_chart(df)

\* C18: the metrics and the per-day values of a successful fetch are those of
\* the records with status 'succeeded' alone: the count is their number, the
\* total the sum of their amounts, the average their quotient, and each day
\* of the chart has the sum and the number of the succeeded records of that
\* day; days are in the chart exactly when they have a succeeded record.
C18_OnlySucceededCount ==
    (last.op = "import_analytics" /\ last.ok) =>
        LET kept == SucceededInWindow
            daily == figure.daily_revenue
        IN  /\ total_transactions = Len(kept)
            /\ total_revenue = SumAmounts(kept)
            /\ kept # << >> => avg_transaction = Quotient(SumAmounts(kept), Len(kept))
            /\ {daily[i].date : i \in 1..Len(daily)} = {kept[k].created : k \in 1..Len(kept)}
            /\ \A i \in 1..Len(daily) :
                  LET ofDay == SelectSeq(kept, LAMBDA p : p.created = daily[i].date)
                  IN  daily[i].revenue = SumAmounts(ofDay) /\ daily[i].volume = Len(ofDay)

C18_Witness ==
    /\ last.op = "import_analytics" /\ last.ok
    /\ total_transactions >= 1
    /\ \E k \in 1..Len(payments) :
          payments[k].status # "succeeded" /\ payments[k].created >= now - WindowDays

\* C19: when the fetch succeeded and no record of the window has status
\* 'succeeded', the module holds no error message, metrics 0 and the no-data
\* figure, and the page rendered from an empty frame without error has no
\* banner, the three metrics 0 and the no-data placeholder.
C19_NoDataPlaceholder ==
    /\ (last.op = "import_analytics" /\ last.ok /\ SucceededInWindow = << >>) =>
          /\ analytics_error_message = NoMessage
          /\ AnalyticsLayout = [banners |-> << >>] @@ EmptyAnalytics
    /\ (page = "analytics" /\ analytics_error_message = NoMessage /\ revenue_df = << >>) =>
          analytics_shown = [banners |-> << >>] @@ EmptyAnalytics

C19_Witness ==
    /\ last.op = "view_analytics"
    /\ analytics_error_message = NoMessage
    /\ analytics_shown.figure.kind = "no_data"
    /\ analytics_shown.banners = << >>
    /\ payments # << >>
    /\ \A k \in 1..Len(payments) : payments[k].status # "succeeded"

(***************************************************************************)
(* Properties of the connectivity script.                                  *)
(***************************************************************************)
\* the text begins with the characters of prefix
HasPrefix(t, prefix) == \E k \in 0..Len(t) : SubSeq(t, 1, k) = prefix

CredentialUsable ==
    /\ script_key.set
    /\ HasPrefix(script_key.text, SkTest) \/ HasPrefix(script_key.text, SkLive)

PrintedLines == {printed[i].line : i \in 1..Len(printed)}
ErrorLines == {"authentication_error", "network_error", "unexpected_error"}

\* C24: the script makes a provider call only with a credential that is
\* present and begins with sk_test_ or sk_live_; with any other credential
\* it exits with status 1 before the first call, and it exits so only then;
\* a provider call that fails is the last call of the run, its failure is
\* printed by an except clause, no exception ends the process, and the
\* script goes on to its last statement and ends with status 0.
C24_ScriptGuardsCalls ==
    /\ calls # << >> => CredentialUsable
    /\ ~CredentialUsable =>
          /\ script_pc \in {"check_key", "check_prefix", "exited"}
          /\ calls = << >>
    /\ script_pc = "exited" <=> exit_status = 1
    /\ script_pc = "exited" => ~CredentialUsable /\ calls = << >>
    /\ script_pc # "crashed"
    /\ \A k \in 1..Len(calls) :
          ~calls[k].ok =>
              /\ k = Len(calls)
              /\ script_pc \in {"end", "done"}
              /\ PrintedLines \cap ErrorLines # {}
              /\ "all_tests_passed" \notin PrintedLines
    /\ script_pc = "end" => ENABLED ScriptFinish
    /\ script_pc = "done" =>
          /\ exit_status = 0
          /\ printed[Len(printed)].line = "separator"

C24_Witness ==
    /\ script_pc = "done" /\ exit_status = 0
    /\ Len(calls) = 3 /\ calls[3].op = "Customer.list" /\ ~calls[3].ok
    /\ "unexpected_error" \in PrintedLines
    /\ "found_products" \in PrintedLines

(***************************************************************************)
(* Properties of the three views together.                                 *)
(***************************************************************************)
FailedCalls == {k \in 1..Len(calls) : ~calls[k].ok}

\* C21: a provider call that fails is the last call its handler makes, and
\* the handler ends as its except clause leaves it: the catalog module with
\* an empty frame, the error in one banner and no card; the analytics module
\* with the error in one banner, metrics 0 and the no-data figure; a
\* submission with the provider's error in the message area, or, when the
\* listing of recent products failed, with the confirmation and the error
\* text in the list; a Buy click with the error logged and the catalog page
\* still rendered.  No other step has a failed call.
C21_FailuresHandled ==
    \A k \in FailedCalls :
        /\ k = Len(calls)
        /\ last.op \in {"import_home", "import_analytics", "submit", "buy"}
        /\ last.op = "import_home" =>
              /\ phase = "running"
              /\ error_message.e = ProviderError(calls[k].op, k)
              /\ HomeLayout = [banners |-> <<error_message>>, cards |-> << >>,
                               placeholder |-> TRUE]
        /\ last.op = "import_analytics" =>
              /\ analytics_phase = "running"
              /\ analytics_error_message.e = ProviderError(calls[k].op, k)
              /\ AnalyticsLayout = [banners |-> <<analytics_error_message>>] @@ EmptyAnalytics
        /\ last.op = "submit" =>
              /\ page = "create"
              /\ IF calls[k].op \in ReadCalls
                 THEN /\ create_message.kind = "success"
                      /\ recent_products.kind = "error"
                      /\ recent_products.e = ProviderError(calls[k].op, k - 2)
                 ELSE /\ create_message.kind = "stripe_error"
                      /\ create_message.e = ProviderError(calls[k].op, k)
        /\ last.op = "buy" =>
              /\ last.logged
              /\ page = "home" /\ shown = HomeLayout

C21_Witness ==
    /\ last.op = "buy" /\ FailedCalls # {}
    /\ analytics_error_message # NoMessage
    /\ page = "home"
    /\ Len(shown.cards) = 2
====
